---------------------------- MODULE Spec2Model ----------------------------
(***************************************************************************)
(* The upload form of client/src/App.tsx: the staged files per category,   *)
(* the error banner, and the calls of handleSubmit that are suspended at   *)
(* one of its two awaits (fetch, response.json).                           *)
(*                                                                         *)
(* Handlers run to completion on the browser's event loop, so each handler *)
(* (or each continuation of handleSubmit between two awaits) is one        *)
(* action. React re-renders between events, so the `files` a handler       *)
(* closes over is the current state.                                       *)
(***************************************************************************)
EXTENDS Integers, Sequences, FiniteSets, TLC

(***************************************************************************)
(* Bounds of the environment.                                              *)
(***************************************************************************)
\* Files the images picker offers under Spec.
NumFiles == 2
\* Files the images picker offers under SpecStaging.
RichFiles == 3
\* Calls of handleSubmit that may be suspended at once under SpecOverlap.
MaxInFlight == 2

(***************************************************************************)
(* Values of the host environment.                                         *)
(***************************************************************************)
\* The FileList | null a picker hands to onChange: null, or a list of File
\* handles (a FileList of zero files is an object, not null).
Null == [isNull |-> TRUE, list |-> <<>>]

FileList(s) == [isNull |-> FALSE, list |-> s]

\* The sequences of distinct file handles 1..n.
Batches(n) ==
    {s \in UNION {[1..k -> 1..n] : k \in 0..n} :
        \A i, j \in DOMAIN s : i # j => s[i] # s[j]}

Selections(n) == {Null} \cup {FileList(s) : s \in Batches(n)}

\* Variant of Truthy: a list of zero files counts as no selection.
TruthyNonEmpty(selectedFiles) ==
    ~selectedFiles.isNull /\ selectedFiles.list # <<>>

\* JavaScript truthiness of a FileList | null: every object is truthy.
Truthy(selectedFiles) == ~selectedFiles.isNull

\* Array.from(fileList)
ArrayFrom(selectedFiles) == selectedFiles.list

(***************************************************************************)
(* JavaScript objects with string keys: the entries in insertion order.    *)
(***************************************************************************)
ObjectKeys(obj) == [i \in 1..Len(obj) |-> obj[i].key]

ObjectValues(obj) == [i \in 1..Len(obj) |-> obj[i].value]

HasKey(obj, k) == \E i \in 1..Len(obj) : obj[i].key = k

\* obj[k]
Get(obj, k) == obj[CHOOSE i \in 1..Len(obj) : obj[i].key = k].value

\* Variant of SpreadWith: the computed key is always added as a new entry.
SpreadAppends(obj, k, v) == Append(obj, [key |-> k, value |-> v])

\* { ...obj, [k]: v }: an existing key keeps its place, a new one goes last.
SpreadWith(obj, k, v) ==
    IF HasKey(obj, k)
    THEN [i \in 1..Len(obj) |->
            IF obj[i].key = k THEN [key |-> k, value |-> v] ELSE obj[i]]
    ELSE Append(obj, [key |-> k, value |-> v])

\* The object literal { images: [], pdf: [], json: [], txt: [] }
EmptyFileState ==
    << [key |-> "images", value |-> <<>>],
       [key |-> "pdf",    value |-> <<>>],
       [key |-> "json",   value |-> <<>>],
       [key |-> "txt",    value |-> <<>>] >>

\* keyof FileState
FileType == {"images", "pdf", "json", "txt"}

(***************************************************************************)
(* State.                                                                  *)
(***************************************************************************)
VARIABLES
    files,      \* useState<FileState>: an object, as its entries
    error,      \* useState<string>
    requests,   \* the suspended calls of handleSubmit, oldest first
    last        \* the event handled last (history, not program state)

vars == <<files, error, requests, last>>

NoAlert == "(no alert)"

\* An event: the handler (and the branch of it) that ran, and the text of
\* the alert it showed.
Event(op, alert) == [op |-> op, alert |-> alert]

\* Variant of Init: the form mounts with a message on display.
InitWithMessage ==
    /\ files = EmptyFileState
    /\ error = "Upload failed"
    /\ requests = <<>>
    /\ last = Event("mount", NoAlert)

Init ==
    /\ files = EmptyFileState
    /\ error = ""
    /\ requests = <<>>
    /\ last = Event("mount", NoAlert)

(***************************************************************************)
(* handleFileChange                                                        *)
(***************************************************************************)
\* Variant of HandleFileChange: the batch is added to the staged files.
HandleFileChangeAppends(fileType, selectedFiles) ==
    /\ IF Truthy(selectedFiles)
       THEN /\ files' = SpreadWith(files, fileType,
                           Get(files, fileType) \o ArrayFrom(selectedFiles))
            /\ error' = ""
       ELSE UNCHANGED <<files, error>>
    /\ UNCHANGED requests
    /\ last' = Event(IF selectedFiles.isNull THEN "selectNull"
                     ELSE IF selectedFiles.list = <<>> THEN "selectNone"
                     ELSE "selectFiles", NoAlert)

\* Variant of HandleFileChange: the message on display is kept.
HandleFileChangeKeepsError(fileType, selectedFiles) ==
    /\ IF Truthy(selectedFiles)
       THEN /\ files' = SpreadWith(files, fileType, ArrayFrom(selectedFiles))
            /\ UNCHANGED error
       ELSE UNCHANGED <<files, error>>
    /\ UNCHANGED requests
    /\ last' = Event(IF selectedFiles.isNull THEN "selectNull"
                     ELSE IF selectedFiles.list = <<>> THEN "selectNone"
                     ELSE "selectFiles", NoAlert)

HandleFileChange(fileType, selectedFiles) ==
    /\ IF Truthy(selectedFiles)
       THEN /\ files' = SpreadWith(files, fileType, ArrayFrom(selectedFiles))
            /\ error' = ""
       ELSE UNCHANGED <<files, error>>
    /\ UNCHANGED requests
    /\ last' = Event(IF selectedFiles.isNull THEN "selectNull"
                     ELSE IF selectedFiles.list = <<>> THEN "selectNone"
                     ELSE "selectFiles", NoAlert)

(***************************************************************************)
(* removeFile                                                              *)
(***************************************************************************)
RECURSIVE FilterFrom(_, _, _)
\* arr.filter((_, i) => i !== index), from the 0-based position i on
FilterFrom(arr, index, i) ==
    IF i >= Len(arr) THEN <<>>
    ELSE (IF i # index THEN <<arr[i + 1]>> ELSE <<>>)
            \o FilterFrom(arr, index, i + 1)

\* Variant of FilterNotIndex: the index is taken as 1-based.
FilterNotIndexOneBased(arr, index) == FilterFrom(arr, index - 1, 0)

FilterNotIndex(arr, index) == FilterFrom(arr, index, 0)

RemoveFile(fileType, index) ==
    /\ files' = SpreadWith(files, fileType,
                           FilterNotIndex(Get(files, fileType), index))
    /\ UNCHANGED <<error, requests>>
    /\ last' = Event(IF 0 <= index /\ index < Len(Get(files, fileType))
                     THEN "removeFile" ELSE "removeNothing", NoAlert)

(***************************************************************************)
(* handleSubmit, up to its first await                                     *)
(***************************************************************************)
NoFilesMessage == "Please select at least one file before submitting."

UploadFailedMessage == "Upload failed"

UploadErrorMessage == "Upload error occurred"

\* Variant of HasFiles: only the first category is looked at.
HasFilesFirstOnly(obj) == Len(ObjectValues(obj)[1]) > 0

\* Object.values(files).some((fileArray) => fileArray.length > 0)
HasFiles(obj) ==
    \E i \in 1..Len(ObjectValues(obj)) : Len(ObjectValues(obj)[i]) > 0

\* Variant of AppendEach: only the first file of the category is appended.
AppendFirst(formData, fileType, arr) ==
    IF arr = <<>> THEN formData
    ELSE Append(formData, [name |-> fileType, value |-> Head(arr)])

RECURSIVE AppendEach(_, _, _)
\* files[fileType].forEach((file) => formData.append(`${fileType}`, file))
AppendEach(formData, fileType, arr) ==
    IF arr = <<>> THEN formData
    ELSE AppendEach(Append(formData, [name |-> fileType, value |-> Head(arr)]),
                    fileType, Tail(arr))

RECURSIVE ForEachKey(_, _, _)
\* Object.keys(files).forEach((fileType) => ...), over the keys left
ForEachKey(formData, obj, keys) ==
    IF keys = <<>> THEN formData
    ELSE ForEachKey(AppendEach(formData, Head(keys), Get(obj, Head(keys))),
                    obj, Tail(keys))

\* new FormData(), then every staged file appended to it
BuildFormData(obj) == ForEachKey(<<>>, obj, ObjectKeys(obj))

\* A call suspended at `await fetch(...)`: the POST is on the wire.
Fetching(formData) == [formData |-> formData, pc |-> "fetch", ok |-> FALSE]

\* Variant of HandleSubmit: a submission in flight blocks the next one.
HandleSubmitGuarded ==
    IF ~HasFiles(files)
    THEN /\ error' = NoFilesMessage
         /\ UNCHANGED <<files, requests>>
         /\ last' = Event("submitNoFiles", NoAlert)
    ELSE /\ requests = <<>>
         /\ requests' = Append(requests, Fetching(BuildFormData(files)))
         /\ UNCHANGED <<files, error>>
         /\ last' = Event("submitPost", NoAlert)

HandleSubmit ==
    IF ~HasFiles(files)
    THEN /\ error' = NoFilesMessage
         /\ UNCHANGED <<files, requests>>
         /\ last' = Event("submitNoFiles", NoAlert)
    ELSE /\ requests' = Append(requests, Fetching(BuildFormData(files)))
         /\ UNCHANGED <<files, error>>
         /\ last' = Event("submitPost", NoAlert)

(***************************************************************************)
(* handleSubmit, resumed                                                   *)
(***************************************************************************)
\* A field of a parsed body that may be missing (undefined).
Undefined == [present |-> FALSE, val |-> <<>>]

Defined(v) == [present |-> TRUE, val |-> v]

\* What response.json() can resolve to: null, or a value with (or without)
\* the fields uploaded_files and error.
JsonNull == [isNull |-> TRUE, uploaded_files |-> Undefined, error |-> Undefined]

JsonObject(uploaded_files, err) ==
    [isNull |-> FALSE, uploaded_files |-> uploaded_files, error |-> err]

Results ==
    {JsonNull} \cup
    {JsonObject(u, e) :
        u \in {Undefined, Defined(<<>>), Defined(<<"f1">>)},
        e \in {Undefined, Defined(""), Defined("bad file")}}

\* The message of the TypeError of reading a property of null.
NullReadMessage(property) ==
    "Cannot read properties of null (reading '" \o property \o "')"

\* The messages a rejected fetch carries, and a rejected response.json().
FetchFailures == {"", "Failed to fetch"}

JsonFailures == {"Unexpected token < in JSON at position 0"}

RECURSIVE JoinItems(_)
\* The items of a pretty-printed array of strings, one per line
JoinItems(list) ==
    IF Len(list) = 1 THEN "\n  \"" \o Head(list) \o "\"\n"
    ELSE "\n  \"" \o Head(list) \o "\"," \o JoinItems(Tail(list))

\* `${JSON.stringify(value, null, 2)}` of an optional array of strings
JSONStringify(field) ==
    IF ~field.present THEN "undefined"
    ELSE IF field.val = <<>> THEN "[]"
    ELSE "[" \o JoinItems(field.val) \o "]"

AlertText(uploaded_files) ==
    "Files uploaded successfully: " \o JSONStringify(uploaded_files)

\* a || b on an optional string: undefined and "" are falsy
OrElse(field, fallback) ==
    IF field.present /\ field.val # "" THEN field.val ELSE fallback

\* The sequence without its i-th element: the call has returned.
Returned(reqs, i) ==
    [j \in 1..(Len(reqs) - 1) |-> IF j < i THEN reqs[j] ELSE reqs[j + 1]]

\* Variant of Catch: the message is shown as it is, empty or not.
CatchNoFallback(i, message, op) ==
    /\ error' = message
    /\ UNCHANGED files
    /\ requests' = Returned(requests, i)
    /\ last' = Event(op, NoAlert)

\* catch (err) { setError(err.message || "Upload error occurred") }
Catch(i, message, op) ==
    /\ error' = OrElse(Defined(message), UploadErrorMessage)
    /\ UNCHANGED files
    /\ requests' = Returned(requests, i)
    /\ last' = Event(op, NoAlert)

\* Variant of FetchResolve: the payload is taken again from the files staged
\* when the response arrives.
FetchResolveRebuilds(i, ok) ==
    /\ requests[i].pc = "fetch"
    /\ requests' = [requests EXCEPT ![i] = [@ EXCEPT !.pc = "json", !.ok = ok,
                                              !.formData = BuildFormData(files)]]
    /\ UNCHANGED <<files, error>>
    /\ last' = Event("fetchResolve", NoAlert)

\* Variant of FetchResolve: a success status resets the files at once.
FetchResolveResets(i, ok) ==
    /\ requests[i].pc = "fetch"
    /\ requests' = [requests EXCEPT ![i] = [@ EXCEPT !.pc = "json", !.ok = ok]]
    /\ files' = IF ok THEN EmptyFileState ELSE files
    /\ UNCHANGED error
    /\ last' = Event("fetchResolve", NoAlert)

\* fetch resolves with a response: the call goes on to await response.json()
FetchResolve(i, ok) ==
    /\ requests[i].pc = "fetch"
    /\ requests' = [requests EXCEPT ![i] = [@ EXCEPT !.pc = "json", !.ok = ok]]
    /\ UNCHANGED <<files, error>>
    /\ last' = Event("fetchResolve", NoAlert)

\* fetch rejects: no response was obtained
FetchReject(i, message) ==
    /\ requests[i].pc = "fetch"
    /\ Catch(i, message, "fetchReject")

\* response.json() rejects: the body is no JSON text
JsonReject(i, message) ==
    /\ requests[i].pc = "json"
    /\ Catch(i, message, "jsonReject")

\* Variant of Uploaded: the staged files are kept.
UploadedKeepsFiles(i, result) ==
    /\ UNCHANGED files
    /\ error' = ""
    /\ requests' = Returned(requests, i)
    /\ last' = Event("uploaded", AlertText(result.uploaded_files))

\* if (response.ok): the alert, the reset of files, the error cleared
Uploaded(i, result) ==
    /\ files' = EmptyFileState
    /\ error' = ""
    /\ requests' = Returned(requests, i)
    /\ last' = Event("uploaded", AlertText(result.uploaded_files))

\* Variant of Rejected: the staged files are reset as after an upload.
RejectedResets(i, result) ==
    /\ error' = OrElse(result.error, UploadFailedMessage)
    /\ files' = EmptyFileState
    /\ requests' = Returned(requests, i)
    /\ last' = Event("rejected", NoAlert)

\* else: setError(result.error || "Upload failed")
Rejected(i, result) ==
    /\ error' = OrElse(result.error, UploadFailedMessage)
    /\ UNCHANGED files
    /\ requests' = Returned(requests, i)
    /\ last' = Event("rejected", NoAlert)

\* response.json() resolves with result; reading a property of null throws
JsonResolve(i, result) ==
    /\ requests[i].pc = "json"
    /\ IF requests[i].ok
       THEN IF result.isNull
            THEN Catch(i, NullReadMessage("uploaded_files"), "jsonThrow")
            ELSE Uploaded(i, result)
       ELSE IF result.isNull
            THEN Catch(i, NullReadMessage("error"), "jsonThrow")
            ELSE Rejected(i, result)

(***************************************************************************)
(* Specifications.                                                         *)
(***************************************************************************)
\* What a picker offers: the images picker n files, every other picker one.
Offered(fileType, n) == IF fileType = "images" THEN n ELSE 1

\* The user stages and removes files and submits, waiting for the outcome of
\* a submission before submitting again; a request has any outcome.
Next ==
    \/ \E fileType \in FileType :
         \E selectedFiles \in Selections(Offered(fileType, NumFiles)) :
            HandleFileChange(fileType, selectedFiles)
    \/ \E fileType \in FileType :
         \E index \in -1..Offered(fileType, NumFiles) :
            RemoveFile(fileType, index)
    \/ requests = <<>> /\ HandleSubmit
    \/ \E i \in 1..Len(requests), ok \in BOOLEAN : FetchResolve(i, ok)
    \/ \E i \in 1..Len(requests), message \in FetchFailures : FetchReject(i, message)
    \/ \E i \in 1..Len(requests), message \in JsonFailures : JsonReject(i, message)
    \/ \E i \in 1..Len(requests), result \in Results : JsonResolve(i, result)

Spec == Init /\ [][Next]_vars

\* The user stages and removes files, and presses Submit only while nothing
\* is staged, so that no request is sent.
NextStaging ==
    \/ \E fileType \in FileType :
         \E selectedFiles \in Selections(Offered(fileType, RichFiles)) :
            HandleFileChange(fileType, selectedFiles)
    \/ \E fileType \in FileType :
         \E index \in -1..Offered(fileType, RichFiles) :
            RemoveFile(fileType, index)
    \/ ~HasFiles(files) /\ HandleSubmit

SpecStaging == Init /\ [][NextStaging]_vars

\* The pickers the user opens under SpecOverlap, each offering one file.
OverlapPickers == {"images", "pdf"}

\* The user stages and removes files of two categories and submits at any
\* time, also while earlier submissions are suspended; a request has any
\* outcome, and the outcomes arrive in any order.
NextOverlap ==
    \/ \E fileType \in OverlapPickers, selectedFiles \in Selections(1) :
            HandleFileChange(fileType, selectedFiles)
    \/ \E fileType \in OverlapPickers, index \in -1..1 :
            RemoveFile(fileType, index)
    \/ (HasFiles(files) => Len(requests) < MaxInFlight) /\ HandleSubmit
    \/ \E i \in 1..Len(requests), ok \in BOOLEAN : FetchResolve(i, ok)
    \/ \E i \in 1..Len(requests), message \in FetchFailures : FetchReject(i, message)
    \/ \E i \in 1..Len(requests), message \in JsonFailures : JsonReject(i, message)
    \/ \E i \in 1..Len(requests), result \in Results : JsonResolve(i, result)

SpecOverlap == Init /\ [][NextOverlap]_vars

(***************************************************************************)
(* Properties.                                                             *)
(***************************************************************************)
\* The four categories in the order of the FileState literal.
CategoryOrder == <<"images", "pdf", "json", "txt">>

\* Every category is present and holds no file.
AllEmpty(obj) == \A c \in FileType : HasKey(obj, c) /\ Get(obj, c) = <<>>

\* Every category holds in obj2 what it holds in obj1.
SameFiles(obj1, obj2) ==
    \A c \in FileType :
        /\ HasKey(obj1, c) /\ HasKey(obj2, c)
        /\ Get(obj1, c) = Get(obj2, c)

\* Every category but c holds in obj2 what it holds in obj1.
SameOthers(obj1, obj2, c) ==
    \A d \in FileType \ {c} :
        /\ HasKey(obj1, d) /\ HasKey(obj2, d)
        /\ Get(obj1, d) = Get(obj2, d)

\* The call i is suspended at response.json() with the given response.ok.
AwaitsBody(i, ok) == requests[i].pc = "json" /\ requests[i].ok = ok

\* The step ends the handling of the response of call i.
BodyHandled(i) ==
    \/ \E result \in Results : JsonResolve(i, result)
    \/ \E message \in JsonFailures : JsonReject(i, message)

\* C1, as claimed: the handling of every response with a success status,
\* whatever its body, ends with the four categories empty, the error unset
\* and a confirmation shown.
C1_AnyBody ==
    [][\A i \in 1..Len(requests) :
        AwaitsBody(i, TRUE) /\ BodyHandled(i) =>
            /\ AllEmpty(files')
            /\ error' = ""
            /\ last'.alert # NoAlert]_vars

\* C1, amended: a response with a success status whose body parses to a
\* value other than null ends with the four categories empty, the error
\* unset and the confirmation of its uploaded_files ("undefined" when it has
\* none) shown; a body that does not parse, or parses to null, shows no
\* confirmation, keeps the staged files and sets the error to the failure's
\* message.
C1_ParsedBody ==
    [][\A i \in 1..Len(requests) :
        AwaitsBody(i, TRUE) =>
            /\ \A result \in Results :
                JsonResolve(i, result) =>
                    IF result.isNull
                    THEN /\ SameFiles(files, files')
                         /\ error' = NullReadMessage("uploaded_files")
                         /\ last'.alert = NoAlert
                    ELSE /\ AllEmpty(files')
                         /\ error' = ""
                         /\ last'.alert = "Files uploaded successfully: "
                                \o JSONStringify(result.uploaded_files)
            /\ \A message \in JsonFailures :
                JsonReject(i, message) =>
                    /\ SameFiles(files, files')
                    /\ error' = message
                    /\ last'.alert = NoAlert]_vars

\* C1: an upload was confirmed with the files the server reported.
C1_Witness ==
    /\ last.op = "uploaded"
    /\ last.alert = "Files uploaded successfully: [\n  \"f1\"\n]"
    /\ AllEmpty(files)
    /\ error = ""

\* C2, as claimed: the handling of every response with a failure status
\* sets the error to the body's error field, or to "Upload failed" when the
\* body has none, and keeps the staged files.
C2_ErrorFieldOrFallback ==
    [][\A i \in 1..Len(requests) :
        AwaitsBody(i, FALSE) =>
            /\ \A result \in Results :
                JsonResolve(i, result) =>
                    /\ error' = IF result.error.present THEN result.error.val
                                ELSE "Upload failed"
                    /\ SameFiles(files, files')
            /\ \A message \in JsonFailures :
                JsonReject(i, message) =>
                    /\ error' = "Upload failed"
                    /\ SameFiles(files, files')]_vars

\* C2, amended: a response with a failure status whose body parses to a
\* value other than null sets the error to the body's error field, or to
\* "Upload failed" when the field is absent or empty; a body that does not
\* parse, or parses to null, sets the error to the failure's message; the
\* staged files are kept in every case.
C2_ParsedErrorField ==
    [][\A i \in 1..Len(requests) :
        AwaitsBody(i, FALSE) =>
            /\ \A result \in Results :
                JsonResolve(i, result) =>
                    /\ error' = IF result.isNull THEN NullReadMessage("error")
                                ELSE IF result.error.present /\ result.error.val # ""
                                THEN result.error.val
                                ELSE "Upload failed"
                    /\ SameFiles(files, files')
                    /\ last'.alert = NoAlert
            /\ \A message \in JsonFailures :
                JsonReject(i, message) =>
                    /\ error' = message
                    /\ SameFiles(files, files')
                    /\ last'.alert = NoAlert]_vars

\* C2: the server rejected an upload with its own message, files staged.
C2_Witness ==
    /\ last.op = "rejected"
    /\ error = "bad file"
    /\ Get(files, "images") = <<1>>
    /\ requests = <<>>

\* C3: a rejected fetch sets the error to its message, or to "Upload error
\* occurred" when the message is empty, shows no confirmation and keeps the
\* staged files.
C3_TransportFailure ==
    [][\A i \in 1..Len(requests) :
        \A message \in FetchFailures :
            FetchReject(i, message) =>
                /\ error' = IF message = "" THEN "Upload error occurred"
                            ELSE message
                /\ last'.alert = NoAlert
                /\ SameFiles(files, files')]_vars

\* C3: a fetch was rejected with an empty message while files were staged.
C3_Witness ==
    /\ last.op = "fetchReject"
    /\ error = "Upload error occurred"
    /\ HasFiles(files)
    /\ requests = <<>>

\* C4: submit with nothing staged sends no request, sets the error to the
\* no-files message and keeps FileState; submit with a file staged sends
\* exactly one request.
C4_SubmitGuard ==
    [][HandleSubmit =>
        IF AllEmpty(files)
        THEN /\ requests' = requests
             /\ error' = "Please select at least one file before submitting."
             /\ SameFiles(files, files')
        ELSE /\ Len(requests') = Len(requests) + 1
             /\ \A i \in 1..Len(requests) : requests'[i] = requests[i]
             /\ requests'[Len(requests')].pc = "fetch"]_vars

\* C4: submit ran with nothing staged and sent nothing.
C4_Witness ==
    /\ last.op = "submitNoFiles"
    /\ error = NoFilesMessage
    /\ AllEmpty(files)
    /\ requests = <<>>

\* The parts a category contributes: one per staged file, in order, named
\* after the category.
PartsOf(obj, c) ==
    [i \in 1..Len(Get(obj, c)) |-> [name |-> c, value |-> Get(obj, c)[i]]]

\* C5: the payload of a submission is the parts of images, pdf, json and
\* txt, in this order, as staged when submit ran.
C5_Payload ==
    [][HandleSubmit /\ ~AllEmpty(files) =>
        requests'[Len(requests')].formData =
            PartsOf(files, "images") \o PartsOf(files, "pdf")
                \o PartsOf(files, "json") \o PartsOf(files, "txt")]_vars

\* C5: a request is on the wire with two images and a file of every other
\* category.
C5_Witness ==
    /\ last.op = "submitPost"
    /\ Len(requests) = 1
    /\ requests[1].formData =
        << [name |-> "images", value |-> 2], [name |-> "images", value |-> 1],
           [name |-> "pdf", value |-> 1], [name |-> "json", value |-> 1],
           [name |-> "txt", value |-> 1] >>

\* C6: selecting a batch of at least one file makes the batch the category's
\* whole sequence, keeps the other categories and clears the error.
C6_SelectReplaces ==
    [][\A c \in FileType :
        \A batch \in Batches(Offered(c, RichFiles)) \ {<<>>} :
            HandleFileChange(c, FileList(batch)) =>
                /\ Get(files', c) = batch
                /\ SameOthers(files, files', c)
                /\ error' = ""]_vars

\* C6: a batch of one image was selected while a pdf stayed staged.
C6_Witness ==
    /\ last.op = "selectFiles"
    /\ Get(files, "images") = <<3>>
    /\ Get(files, "pdf") = <<1>>
    /\ error = ""

\* C7, as claimed: a null selection and a selection of zero files both
\* leave every category and the error as they were.
C7_EmptyIsNoOp ==
    [][\A c \in FileType :
        \A selectedFiles \in {Null, FileList(<<>>)} :
            HandleFileChange(c, selectedFiles) =>
                /\ SameFiles(files, files')
                /\ error' = error]_vars

\* C7, amended: a null selection leaves every category and the error as they
\* were; a selection of zero files empties its category, keeps the other
\* categories and clears the error.
C7_NullIsNoOp ==
    [][\A c \in FileType :
        /\ HandleFileChange(c, Null) =>
            /\ SameFiles(files, files')
            /\ error' = error
        /\ HandleFileChange(c, FileList(<<>>)) =>
            /\ Get(files', c) = <<>>
            /\ SameOthers(files, files', c)
            /\ error' = ""]_vars

\* C7: the picker reported null while three images were staged.
C7_Witness ==
    /\ last.op = "selectNull"
    /\ Get(files, "images") = <<1, 2, 3>>

\* C8: removing at a position 0 <= index < n leaves the n-1 other files in
\* their order; at any other index the sequence stays; the other categories
\* and the error stay in both cases.
C8_RemoveAtIndex ==
    [][\A c \in FileType :
        \A index \in -1..Offered(c, RichFiles) :
            RemoveFile(c, index) =>
                LET old == Get(files, c)
                    new == Get(files', c)
                    n == Len(old)
                IN  /\ IF 0 <= index /\ index < n
                       THEN /\ Len(new) = n - 1
                            /\ \A j \in 1..(n - 1) :
                                new[j] = IF j <= index THEN old[j] ELSE old[j + 1]
                       ELSE new = old
                    /\ SameOthers(files, files', c)
                    /\ error' = error]_vars

\* C8: an image was removed, the images 1 and 3 are left in their order.
C8_Witness ==
    /\ last.op = "removeFile"
    /\ Get(files, "images") = <<1, 3>>
    /\ Get(files, "pdf") = <<1>>

\* C9, as claimed: after removeFile(c, index) has removed a file, a second
\* removeFile(c, index) with the same index leaves every file of the
\* original sequence but the one that was at index.
C9_StaleIndexKeepsOthers ==
    [][\A c \in FileType :
        \A index \in 0..Offered(c, RichFiles) :
            RemoveFile(c, index) /\ index < Len(Get(files, c)) =>
                LET old == Get(files, c)
                    twice == FilterNotIndex(Get(files', c), index)
                IN  \A j \in 1..Len(old) :
                        j # index + 1 =>
                            \E k \in 1..Len(twice) : twice[k] = old[j]]_vars

\* C10: FileState always has exactly the keys images, pdf, json and txt,
\* each mapped to a sequence of files.
C10_FourKeys ==
    /\ Len(files) = 4
    /\ {files[i].key : i \in 1..Len(files)} = FileType
    /\ \A i \in 1..Len(files) : files[i].value \in Seq(1..NumFiles)

\* C10: FileState was reset after an upload and has its four keys in order.
C10_Witness ==
    /\ last.op = "uploaded"
    /\ ObjectKeys(files) = CategoryOrder

\* C11: right after mount, before any event is handled, every category is
\* empty, the error is unset and no submission is in flight.
C11_Mounted ==
    last.op = "mount" =>
        /\ AllEmpty(files)
        /\ error = ""
        /\ requests = <<>>

\* C11: the form has mounted and no event was handled yet.
C11_Witness ==
    /\ last.op = "mount"
    /\ ObjectKeys(files) = CategoryOrder
    /\ error = ""

\* C12: submit is not guarded against re-entry: whenever a file is staged,
\* whatever is in flight, submit can run and puts one more request on the
\* wire, carrying the files staged now.
C12_SubmitReenters ==
    HasFiles(files) =>
        ENABLED (/\ HandleSubmit
                 /\ Len(requests') = Len(requests) + 1
                 /\ requests'[Len(requests')].formData =
                        PartsOf(files, "images") \o PartsOf(files, "pdf")
                            \o PartsOf(files, "json") \o PartsOf(files, "txt"))

\* C12: submit ran twice in a row; two requests wait for their response and
\* carry the same files.
C12_Witness ==
    /\ last.op = "submitPost"
    /\ Len(requests) = 2
    /\ requests[1].pc = "fetch" /\ requests[2].pc = "fetch"
    /\ requests[1].formData = requests[2].formData
    /\ requests[1].formData =
        << [name |-> "images", value |-> 1], [name |-> "pdf", value |-> 1] >>

\* The events that are handlers of the user's actions.
UserOps ==
    {"selectNull", "selectNone", "selectFiles", "removeFile", "removeNothing",
     "submitNoFiles", "submitPost"}

\* C13, as claimed: once the response of a call has arrived, no handler of
\* the user's actions runs before the outcome of that call is applied.
C13_OnlyFetchSuspends ==
    [][(\E i \in 1..Len(requests) : requests[i].pc = "json") =>
        last'.op \notin UserOps]_vars

\* C13, amended: the arrival of the response applies nothing: it changes
\* neither FileState nor the error, shows no alert and leaves the call
\* suspended, now at response.json(); the outcome is applied, and the call
\* returns, in the one step in which response.json() settles.
C13_TwoAwaits ==
    [][\A i \in 1..Len(requests) :
        /\ \A ok \in BOOLEAN :
            FetchResolve(i, ok) =>
                /\ SameFiles(files, files')
                /\ error' = error
                /\ last'.alert = NoAlert
                /\ Len(requests') = Len(requests)
                /\ requests'[i].pc = "json"
                /\ requests'[i].ok = ok
        /\ requests[i].pc = "json" /\ BodyHandled(i) =>
                /\ Len(requests') = Len(requests) - 1
                /\ last'.op \in {"uploaded", "rejected", "jsonThrow", "jsonReject"}]_vars

\* C13: files were selected after the response of the one call in flight
\* had arrived and before its outcome was applied.
C13_Witness ==
    /\ last.op = "selectFiles"
    /\ Len(requests) = 1
    /\ requests[1].pc = "json"
    /\ requests[1].ok

\* The request carries the file as a part of the category c.
Carries(request, c, file) ==
    \E p \in 1..Len(request.formData) :
        request.formData[p] = [name |-> c, value |-> file]

\* C14, as claimed: every file staged just before the reset of a successful
\* submission was a part of the payload of the request that succeeded.
C14_ResetOnlyTransmitted ==
    [][\A i \in 1..Len(requests) :
        \A result \in Results :
            AwaitsBody(i, TRUE) /\ ~result.isNull /\ JsonResolve(i, result) =>
                \A c \in FileType :
                    \A k \in 1..Len(Get(files, c)) :
                        Carries(requests[i], c, Get(files, c)[k])]_vars

\* The error a settled body leaves, from the status and the body alone.
ErrorAfter(ok, result) ==
    IF result.isNull
    THEN NullReadMessage(IF ok THEN "uploaded_files" ELSE "error")
    ELSE IF ok THEN ""
    ELSE IF result.error.present /\ result.error.val # "" THEN result.error.val
    ELSE "Upload failed"

\* C15: the payload of a submission is fixed when submit runs. The handlers
\* of the user's actions leave every request in flight as it is (submit adds
\* one after them), the arrival of a response keeps every payload, and the
\* outcome of a call is decided by its status and body alone: it leaves the
\* other calls as they are, and FileState either stays or becomes the
\* all-empty literal.
C15_PayloadFixed ==
    [][/\ last'.op \in UserOps =>
            /\ Len(requests') >= Len(requests)
            /\ \A i \in 1..Len(requests) : requests'[i] = requests[i]
       /\ \A i \in 1..Len(requests) :
            /\ \A ok \in BOOLEAN :
                FetchResolve(i, ok) =>
                    \A j \in 1..Len(requests) :
                        requests'[j].formData = requests[j].formData
            /\ \A result \in Results :
                JsonResolve(i, result) =>
                    /\ requests' = Returned(requests, i)
                    /\ error' = ErrorAfter(requests[i].ok, result)
                    /\ IF requests[i].ok /\ ~result.isNull
                       THEN files' = EmptyFileState
                       ELSE files' = files
            /\ \A message \in FetchFailures \cup JsonFailures :
                FetchReject(i, message) \/ JsonReject(i, message) =>
                    /\ requests' = Returned(requests, i)
                    /\ error' = IF message = "" THEN "Upload error occurred"
                                ELSE message
                    /\ files' = files]_vars

\* C15: while the request carrying the image waits for its response, the
\* image was removed and a pdf selected; the request still carries the image.
C15_Witness ==
    /\ last.op = "selectFiles"
    /\ Len(requests) = 1
    /\ requests[1].pc = "fetch"
    /\ requests[1].formData = << [name |-> "images", value |-> 1] >>
    /\ Get(files, "images") = <<>>
    /\ Get(files, "pdf") = <<1>>

\* C16: while the no-files message is on display, no file is staged.
C16_NoFilesMessageMeansEmpty ==
    error = "Please select at least one file before submitting." =>
        AllEmpty(files)

\* C16: submit ran with nothing staged while an earlier submission was still
\* in flight; the message is on display and nothing is staged.
C16_Witness ==
    /\ last.op = "submitNoFiles"
    /\ error = NoFilesMessage
    /\ Len(requests) = 1
    /\ AllEmpty(files)

=============================================================================
